---- MODULE Spec2Model ----
(***************************************************************************)
(* Model of the SafeComms Rust client (src/src/lib.rs).                    *)
(*                                                                         *)
(* A Rust String is a sequence of text tokens (<<>> is the empty string),  *)
(* so that trimming, concatenation and formatting act on its content.      *)
(* A path and a base URL are sequences of single characters.               *)
(* Every async fn is cut at its .await points: one action per segment.     *)
(***************************************************************************)
EXTENDS Integers, Sequences, FiniteSets, TLC

VARIABLES base_url, api_key, ctor, calls

vars == <<base_url, api_key, ctor, calls>>

\* ---------------------------------------------------------------- bounds
NumCalls == 2
MaxUrlLen == 3
MaxPathLen == 3

\* ------------------------------------------------------- Option<T>, Result
None == [t |-> "None"]
Some(v) == [t |-> "Some", v |-> v]
IsSome(o) == o.t = "Some"

\* Option::or
OptOr(a, b) == IF IsSome(a) THEN a ELSE b

\* Option::unwrap_or / unwrap_or_else
UnwrapOr(o, d) == IF IsSome(o) THEN o.v ELSE d

Ok(v) == [t |-> "Ok", v |-> v]

\* SafeCommsError::RequestError(#[from] reqwest::Error); why is the stage at
\* which reqwest failed: "send", "body" (reading the body) or "decode".
RequestError(why) == [t |-> "Err", kind |-> "RequestError", why |-> why]

\* SafeCommsError::ApiError(String)
ApiError(msg) == [t |-> "Err", kind |-> "ApiError", msg |-> msg]

\* SafeCommsError::SerializationError(#[from] serde_json::Error)
SerializationError == [t |-> "Err", kind |-> "SerializationError"]

\* The three variants of SafeCommsError
ErrorKinds == {"RequestError", "ApiError", "SerializationError"}

\* ------------------------------------------------------------ JSON values
JNull == [t |-> "null"]
JStr(s) == [t |-> "str", s |-> s]
JBool(b) == [t |-> "bool", b |-> b]
\* An integer literal that fits i32
JNum(n) == [t |-> "num", n |-> n]
\* An integer literal beyond the i32 range, such as 2147483648
JBigNum == [t |-> "bignum"]
JObj(o) == [t |-> "obj", o |-> o]
JArr(a) == [t |-> "arr", a |-> a]
EmptyMap == [k \in {} |-> JNull]

\* A body that is not a JSON document
NotJson == [t |-> "invalid"]

\* ---------------------------------------------------------- constructor
DEFAULT_BASE_URL == <<"https:", "/", "/", "api.safecomms.dev">>

RECURSIVE TrimEndSlashes(_)
\* str::trim_end_matches('/'): drops every trailing '/'
TrimEndSlashes(s) ==
    IF s # <<>> /\ s[Len(s)] = "/" THEN TrimEndSlashes(SubSeq(s, 1, Len(s) - 1))
    ELSE s

\* Mutant: one trailing '/' is dropped (strip_suffix), not all of them
NewBaseUrlStripOne(urlOpt) ==
    LET u == UnwrapOr(urlOpt, DEFAULT_BASE_URL)
    IN  IF u # <<>> /\ u[Len(u)] = "/" THEN SubSeq(u, 1, Len(u) - 1) ELSE u

\* SafeCommsClient::new: the base_url field of the new client
NewBaseUrl(urlOpt) == TrimEndSlashes(UnwrapOr(urlOpt, DEFAULT_BASE_URL))

\* format!("{}/moderation/text", self.base_url) and its three siblings
Endpoint(op) ==
    CASE op = "moderate_text" -> <<"/", "moderation", "/", "text">>
      [] op = "moderate_image" -> <<"/", "moderation", "/", "image">>
      [] op = "moderate_image_file" -> <<"/", "moderation", "/", "image", "/", "upload">>
      [] op = "get_usage" -> <<"/", "usage">>

RequestUrl(base, op) == base \o Endpoint(op)

\* format!("Bearer {}", self.api_key)
AuthHeader(key) == <<"Bearer ">> \o key

\* ------------------------------------------------- request serialisation
\* Mutant: no skip_serializing_if, so None is written as null
JsonOptionalNoSkip(key, opt, val) == <<[k |-> key, v |-> val]>>

\* #[serde(skip_serializing_if = "Option::is_none")]: the key is written
\* only for Some(_); val is the serialised inner value.
JsonOptional(key, opt, val) ==
    IF IsSome(opt) THEN <<[k |-> key, v |-> val]>> ELSE <<>>

\* A required field is always written.
JsonRequired(key, val) == <<[k |-> key, v |-> val]>>

\* Serialize for Option<&str>: Some(s) is the string, None is null
SerOptStr(opt) == IF IsSome(opt) THEN JStr(opt.v) ELSE JNull

\* Serialize for Option<bool>
SerOptBool(opt) == IF IsSome(opt) THEN JBool(opt.v) ELSE JNull

\* #[derive(Serialize)] struct TextModerationRequest
SerializeTextRequest(r) ==
    JsonRequired("content", JStr(r.content))
    \o JsonOptional("language", r.language, SerOptStr(r.language))
    \o JsonOptional("replace", r.replace, SerOptBool(r.replace))
    \o JsonOptional("pii", r.pii, SerOptBool(r.pii))
    \o JsonOptional("replaceSeverity", r.replace_severity, SerOptStr(r.replace_severity))
    \o JsonOptional("moderationProfileId", r.moderation_profile_id,
                    SerOptStr(r.moderation_profile_id))

\* #[derive(Serialize)] struct ImageModerationRequest
SerializeImageRequest(r) ==
    JsonRequired("image", JStr(r.image))
    \o JsonOptional("language", r.language, SerOptStr(r.language))
    \o JsonOptional("moderationProfileId", r.moderation_profile_id,
                    SerOptStr(r.moderation_profile_id))
    \o JsonOptional("enableOcr", r.enable_ocr, SerOptBool(r.enable_ocr))
    \o JsonOptional("enhancedOcr", r.enhanced_ocr, SerOptBool(r.enhanced_ocr))
    \o JsonOptional("extractMetadata", r.extract_metadata, SerOptBool(r.extract_metadata))

\* bool::to_string
BoolToString(b) == IF b THEN <<"true">> ELSE <<"false">>

\* if let Some(x) = opt { form = form.text(name, x.to_string()) }
TextPart(name, opt, str) ==
    IF IsSome(opt) THEN <<[name |-> name, text |-> str]>> ELSE <<>>

\* to_string of the value inside an Option<&str>
OptStrText(opt) == IF IsSome(opt) THEN opt.v ELSE <<>>

\* to_string of the value inside an Option<bool>
OptBoolText(opt) == IF IsSome(opt) THEN BoolToString(opt.v) ELSE <<>>

\* ------------------------------------------------------ Path::file_name
RECURSIVE SplitAcc(_, _, _)
\* The non-empty runs of characters between '/' separators
SplitAcc(p, cur, acc) ==
    IF p = <<>> THEN (IF cur = <<>> THEN acc ELSE Append(acc, cur))
    ELSE IF Head(p) = "/"
         THEN SplitAcc(Tail(p), <<>>, IF cur = <<>> THEN acc ELSE Append(acc, cur))
         ELSE SplitAcc(Tail(p), Append(cur, Head(p)), acc)

Segments(p) == SplitAcc(p, <<>>, <<>>)

HasRoot(p) == p # <<>> /\ p[1] = "/"

\* One segment as a std::path::Component
Component(seg) ==
    IF seg = <<".", ".">> THEN [kind |-> "ParentDir"]
    ELSE [kind |-> "Normal", name |-> seg]

RECURSIVE NormalAndParent(_)
\* The components of the segments: "." segments are skipped
NormalAndParent(segs) ==
    IF segs = <<>> THEN <<>>
    ELSE IF Head(segs) = <<".">> THEN NormalAndParent(Tail(segs))
    ELSE <<Component(Head(segs))>> \o NormalAndParent(Tail(segs))

\* Path::components: a leading '/' is RootDir, a leading "." is CurDir,
\* every other "." and every empty segment is dropped.
Components(p) ==
    LET segs == Segments(p)
        lead == IF HasRoot(p) THEN <<[kind |-> "RootDir"]>>
                ELSE IF segs # <<>> /\ segs[1] = <<".">> THEN <<[kind |-> "CurDir"]>>
                ELSE <<>>
    IN  lead \o NormalAndParent(segs)

\* Path::file_name: the last component when it is a Normal one
PathFileName(p) ==
    LET cs == Components(p)
    IN  IF cs # <<>> /\ cs[Len(cs)].kind = "Normal" THEN Some(cs[Len(cs)].name)
        ELSE None

FALLBACK_FILE_NAME == <<"image.jpg">>

\* Mutant: the fallback name is used whatever the path
FileNameAlwaysFallback(p) == FALLBACK_FILE_NAME

\* Path::new(file_path).file_name().and_then(|n| n.to_str())
\*     .unwrap_or("image.jpg").to_string()
FileName(p) == UnwrapOr(PathFileName(p), FALLBACK_FILE_NAME)

\* ------------------------------------------------------ tokio::fs::read
\* The last raw segment of the path: what follows its last '/'
RECURSIVE LastRawSegment(_)
LastRawSegment(p) ==
    IF p = <<>> \/ p[Len(p)] = "/" THEN <<>>
    ELSE Append(LastRawSegment(SubSeq(p, 1, Len(p) - 1)), p[Len(p)])

\* Path resolution: a path that is empty, ends in '/', or ends in "." or ".."
\* names a directory or nothing, never a regular file.
CanNameRegularFile(p) == LastRawSegment(p) \notin {<<>>, <<".">>, <<".", ".">>}

ENOENT == <<"No such file or directory (os error 2)">>
EISDIR == <<"Is a directory (os error 21)">>

FileContents == {"bytes0"}

\* Every outcome tokio::fs::read(file_path).await can have
ReadOutcomes(p) ==
    {[t |-> "Err", e |-> ENOENT]}
    \cup (IF p # <<>> THEN {[t |-> "Err", e |-> EISDIR]} ELSE {})
    \cup (IF CanNameRegularFile(p) THEN {Ok(b) : b \in FileContents} ELSE {})

\* .map_err(|e| SafeCommsError::ApiError(format!("Failed to read file: {}", e)))
ReadFailed(e) == ApiError(<<"Failed to read file: ">> \o e)

\* --------------------------------------------------------- the requests
\* moderate_text: lines 125-138
BuildTextRequest(base, key, a) ==
    [method |-> "POST", url |-> RequestUrl(base, "moderate_text"),
     auth |-> AuthHeader(key),
     body |-> [kind |-> "json", fields |-> SerializeTextRequest(a)]]

\* moderate_image: lines 163-167
BuildImageRequest(base, key, a) ==
    [method |-> "POST", url |-> RequestUrl(base, "moderate_image"),
     auth |-> AuthHeader(key),
     body |-> [kind |-> "json", fields |-> SerializeImageRequest(a)]]

\* moderate_image_file: lines 199-232
BuildUploadRequest(base, key, a, bytes) ==
    [method |-> "POST", url |-> RequestUrl(base, "moderate_image_file"),
     auth |-> AuthHeader(key),
     body |-> [kind |-> "multipart",
               parts |-> <<[name |-> "image", file_name |-> FileName(a.file_path),
                            bytes |-> bytes]>>
                  \o TextPart("language", a.language, OptStrText(a.language))
                  \o TextPart("moderationProfileId", a.moderation_profile_id,
                              OptStrText(a.moderation_profile_id))
                  \o TextPart("enableOcr", a.enable_ocr, OptBoolText(a.enable_ocr))
                  \o TextPart("enhancedOcr", a.enhanced_ocr, OptBoolText(a.enhanced_ocr))
                  \o TextPart("extractMetadata", a.extract_metadata,
                              OptBoolText(a.extract_metadata))]]

\* get_usage: lines 253-256
BuildUsageRequest(base, key) ==
    [method |-> "GET", url |-> RequestUrl(base, "get_usage"),
     auth |-> AuthHeader(key), body |-> [kind |-> "none"]]

\* ------------------------------------------------------- the status code
\* Mutant: every status below 400 counts as success
IsSuccessBelow400(status) == status < 400

\* StatusCode::is_success
IsSuccess(status) == 200 <= status /\ status <= 299

\* StatusCode::canonical_reason
CanonicalReason(status) ==
    CASE status = 200 -> Some("OK")
      [] status = 201 -> Some("Created")
      [] status = 300 -> Some("Multiple Choices")
      [] status = 400 -> Some("Bad Request")
      [] status = 404 -> Some("Not Found")
      [] status = 500 -> Some("Internal Server Error")
      [] OTHER -> None

\* status.to_string(), Display for StatusCode: "{code} {canonical reason}"
StatusToString(status) ==
    <<ToString(status), " ", UnwrapOr(CanonicalReason(status), "<unknown status code>")>>

\* ------------------------------------------- #[derive(Deserialize)] types
Field(name, ty, opt) == [name |-> name, ty |-> ty, opt |-> opt]

\* struct ProblemDetails
ProblemDetailsSchema ==
    <<Field("detail", "str", TRUE), Field("title", "str", TRUE)>>

\* struct ModerationIssue
ModerationIssueSchema ==
    <<Field("term", "str", TRUE), Field("context", "str", TRUE)>>

\* struct AddonUsage
AddonUsageSchema ==
    <<Field("replacedUnsafe", "bool", FALSE), Field("replacedPii", "bool", FALSE)>>

\* struct ModerationResponse
ModerationResponseSchema ==
    <<Field("isClean", "bool", FALSE), Field("severity", "str", TRUE),
      Field("categoryScores", "strmap", TRUE), Field("issues", "issues", TRUE),
      Field("reason", "str", TRUE), Field("isBypassAttempt", "bool", FALSE),
      Field("safeContent", "str", TRUE), Field("addons", "addons", TRUE)>>

\* struct UsageResponse
UsageResponseSchema ==
    <<Field("tier", "str", FALSE), Field("rateLimit", "i32", FALSE),
      Field("tokenLimit", "i32", TRUE), Field("tokensUsed", "i32", FALSE),
      Field("remainingTokens", "i32", FALSE)>>

\* The schema behind a field type that is itself a struct
NestedSchema(ty) ==
    IF ty = "issues" THEN ModerationIssueSchema ELSE AddonUsageSchema

Missing == [t |-> "missing"]

\* The JSON value given for field i: by key in an object, by position in an array
Slot(json, schema, i) ==
    IF json.t = "obj"
    THEN (IF schema[i].name \in DOMAIN json.o THEN json.o[schema[i].name] ELSE Missing)
    ELSE (IF i <= Len(json.a) THEN json.a[i] ELSE Missing)

RECURSIVE TypeOk(_, _), StructOk(_, _)
\* Whether a JSON value deserializes as the field type
TypeOk(v, ty) ==
    CASE ty = "str" -> v.t = "str"
      [] ty = "bool" -> v.t = "bool"
      [] ty = "i32" -> v.t = "num"
      [] ty = "strmap" -> v.t = "obj" /\ \A k \in DOMAIN v.o : v.o[k].t = "str"
      [] ty = "issues" ->
            v.t = "arr" /\ \A i \in DOMAIN v.a : StructOk(v.a[i], NestedSchema(ty))
      [] ty = "addons" -> StructOk(v, NestedSchema(ty))

\* Whether a JSON value deserializes as the struct: an object (unknown keys are
\* ignored, a missing Option field is None, a missing required field an error)
\* or an array of exactly the struct's fields in order.
StructOk(json, schema) ==
    /\ json.t \in {"obj", "arr"}
    /\ json.t = "arr" => Len(json.a) = Len(schema)
    /\ \A i \in DOMAIN schema :
          LET v == Slot(json, schema, i)
          IN  IF v = Missing THEN schema[i].opt
              ELSE IF schema[i].opt /\ v.t = "null" THEN TRUE
              ELSE TypeOk(v, schema[i].ty)

RECURSIVE TypedValue(_, _), StructValue(_, _)
\* The Rust value a JSON value deserializes to
TypedValue(v, ty) ==
    CASE ty = "str" -> v.s
      [] ty = "bool" -> v.b
      [] ty = "i32" -> v.n
      [] ty = "strmap" -> [k \in DOMAIN v.o |-> v.o[k].s]
      [] ty = "issues" -> [i \in DOMAIN v.a |-> StructValue(v.a[i], NestedSchema(ty))]
      [] ty = "addons" -> StructValue(v, NestedSchema(ty))

StructValue(json, schema) ==
    [n \in {schema[i].name : i \in DOMAIN schema} |->
        LET i == CHOOSE j \in DOMAIN schema : schema[j].name = n
            v == Slot(json, schema, i)
        IN  IF schema[i].opt
            THEN (IF v = Missing \/ v.t = "null" THEN None
                  ELSE Some(TypedValue(v, schema[i].ty)))
            ELSE TypedValue(v, schema[i].ty)]

\* serde_json::from_str::<T>(text): Ok(value), or Err for a text that is not
\* JSON or does not fit T
FromStr(body, schema) ==
    IF body.json # NotJson /\ StructOk(body.json, schema)
    THEN Ok(StructValue(body.json, schema))
    ELSE [t |-> "Err"]

\* ------------------------------------------------------ response handling
\* Mutant: title is preferred to detail
ProblemMessageTitleFirst(problem, status) ==
    UnwrapOr(OptOr(problem.title, problem.detail), StatusToString(status))

\* problem.detail.or(problem.title).unwrap_or_else(|| status.to_string())
ProblemMessage(problem, status) ==
    UnwrapOr(OptOr(problem.detail, problem.title), StatusToString(status))

\* Mutant: the numeric code alone is formatted, without the reason phrase
RawMessageCodeOnly(status, error_text) == <<ToString(status), " - ">> \o error_text

\* format!("{} - {}", status, error_text)
RawMessage(status, error_text) == StatusToString(status) \o <<" - ">> \o error_text

\* The non-2xx branch once response.text() has given error_text
ErrorOutcome(status, body) ==
    LET problem == FromStr(body, ProblemDetailsSchema)
    IN  IF problem.t = "Ok" THEN ApiError(ProblemMessage(problem.v, status))
        ELSE ApiError(RawMessage(status, body.raw))

\* response.json::<T>().await?: reqwest decodes the body and reports a failure
\* as a reqwest::Error, which `?` turns into RequestError through #[from]
JsonOutcome(body, schema) ==
    LET r == FromStr(body, schema)
    IN  IF r.t = "Ok" THEN Ok(r.v) ELSE RequestError("decode")

\* The success type of each operation
SuccessSchema(op) ==
    IF op = "get_usage" THEN UsageResponseSchema ELSE ModerationResponseSchema

\* What an operation returns for a response whose body was read
Outcome(op, status, body) ==
    IF ~IsSuccess(status) THEN ErrorOutcome(status, body)
    ELSE JsonOutcome(body, SuccessSchema(op))

\* ------------------------------------------------------------ the inputs
SeqsUpTo(S, n) == UNION {[1..k -> S] : k \in 0..n}

OptStrings == {None, Some(<<>>), Some(<<"en">>)}
OptBools == {None, Some(FALSE), Some(TRUE)}

\* The arguments of moderate_text
TextArgs(contents, strs, bools) ==
    [content : contents, language : strs, replace : bools, pii : bools,
     replace_severity : strs, moderation_profile_id : strs]

\* The fields of an ImageModerationRequest
ImageArgs(images, strs, bools) ==
    [image : images, language : strs, moderation_profile_id : strs,
     enable_ocr : bools, enhanced_ocr : bools, extract_metadata : bools]

\* The arguments of moderate_image_file
FileArgs(paths, strs, bools) ==
    [file_path : paths, language : strs, moderation_profile_id : strs,
     enable_ocr : bools, enhanced_ocr : bools, extract_metadata : bools]

PathChars == {"/", ".", "a"}
UrlChars == {"x", "/"}

\* The base_url argument of SafeCommsClient::new
WideUrls ==
    {None, Some(<<"https:", "/", "/", "x.test", "/", "/", "/">>)}
    \cup {Some(u) : u \in SeqsUpTo(UrlChars, MaxUrlLen)}

NarrowUrls == {None, Some(<<"x", "/", "/">>)}

SharedClientUrls == {Some(<<"x", "/", "/">>)}

ApiKeys == {<<"key">>}

Body(raw, json) == [raw |-> raw, json |-> json]

BodyOops == Body(<<"oops">>, NotJson)
BodyEmpty == Body(<<>>, NotJson)
BodyDetail == Body(<<"{\"detail\":\"D\"}">>, JObj([detail |-> JStr(<<"D">>)]))
BodyDetailTitle ==
    Body(<<"{\"detail\":\"D\",\"title\":\"T\"}">>,
         JObj([detail |-> JStr(<<"D">>), title |-> JStr(<<"T">>)]))
BodyTitle == Body(<<"{\"title\":\"T\"}">>, JObj([title |-> JStr(<<"T">>)]))
BodyEmptyObject == Body(<<"{}">>, JObj(EmptyMap))
BodyNullDetail ==
    Body(<<"{\"detail\":null,\"title\":\"T\"}">>,
         JObj([detail |-> JNull, title |-> JStr(<<"T">>)]))
BodyEmptyDetail ==
    Body(<<"{\"detail\":\"\",\"title\":\"T\"}">>,
         JObj([detail |-> JStr(<<>>), title |-> JStr(<<"T">>)]))
BodyNumberDetail == Body(<<"{\"detail\":5}">>, JObj([detail |-> JNum(5)]))
BodyPair == Body(<<"[\"D\",\"T\"]">>, JArr(<<JStr(<<"D">>), JStr(<<"T">>)>>))
BodyShortArray == Body(<<"[\"D\"]">>, JArr(<<JStr(<<"D">>)>>))
BodyString == Body(<<"\"D\"">>, JStr(<<"D">>))
BodyModeration ==
    Body(<<"{\"isClean\":true,\"isBypassAttempt\":false}">>,
         JObj([isClean |-> JBool(TRUE), isBypassAttempt |-> JBool(FALSE)]))
BodyModerationFull ==
    Body(<<"{\"isClean\":false,\"severity\":\"high\",\"categoryScores\":{\"hate\":\"0.9\"},\"issues\":[{\"term\":\"x\"}],\"reason\":null,\"isBypassAttempt\":true,\"addons\":{\"replacedUnsafe\":true,\"replacedPii\":false},\"detail\":\"D\"}">>,
         JObj([isClean |-> JBool(FALSE), severity |-> JStr(<<"high">>),
               categoryScores |-> JObj([hate |-> JStr(<<"0.9">>)]),
               issues |-> JArr(<<JObj([term |-> JStr(<<"x">>)])>>),
               reason |-> JNull, isBypassAttempt |-> JBool(TRUE),
               addons |-> JObj([replacedUnsafe |-> JBool(TRUE),
                                replacedPii |-> JBool(FALSE)]),
               detail |-> JStr(<<"D">>)]))
BodyNoBypass == Body(<<"{\"isClean\":true}">>, JObj([isClean |-> JBool(TRUE)]))
BodyNoClean ==
    Body(<<"{\"isBypassAttempt\":false}">>, JObj([isBypassAttempt |-> JBool(FALSE)]))
BodyBadAddons ==
    Body(<<"{\"isClean\":true,\"isBypassAttempt\":false,\"addons\":{}}">>,
         JObj([isClean |-> JBool(TRUE), isBypassAttempt |-> JBool(FALSE),
               addons |-> JObj(EmptyMap)]))
BodyUsage ==
    Body(<<"{\"tier\":\"pro\",\"rateLimit\":100,\"tokensUsed\":5,\"remainingTokens\":95}">>,
         JObj([tier |-> JStr(<<"pro">>), rateLimit |-> JNum(100),
               tokensUsed |-> JNum(5), remainingTokens |-> JNum(95)]))
BodyUsageNoTier ==
    Body(<<"{\"rateLimit\":100,\"tokensUsed\":5,\"remainingTokens\":95}">>,
         JObj([rateLimit |-> JNum(100), tokensUsed |-> JNum(5),
               remainingTokens |-> JNum(95)]))
BodyUsageOverflow ==
    Body(<<"{\"tier\":\"pro\",\"rateLimit\":2147483648,\"tokensUsed\":5,\"remainingTokens\":95}">>,
         JObj([tier |-> JStr(<<"pro">>), rateLimit |-> JBigNum,
               tokensUsed |-> JNum(5), remainingTokens |-> JNum(95)]))

WideBodies ==
    {BodyOops, BodyEmpty, BodyDetail, BodyDetailTitle, BodyTitle, BodyEmptyObject,
     BodyNullDetail, BodyEmptyDetail, BodyNumberDetail, BodyPair, BodyShortArray,
     BodyString, BodyModeration, BodyModerationFull, BodyNoBypass, BodyNoClean,
     BodyBadAddons, BodyUsage, BodyUsageNoTier, BodyUsageOverflow}

WideStatuses == {200, 201, 299, 300, 400, 404, 500, 599}

Responses(statuses, bodies) == [status : statuses, body : bodies]

NarrowResponses ==
    {[status |-> 200, body |-> BodyModeration], [status |-> 200, body |-> BodyUsage],
     [status |-> 500, body |-> BodyOops]}

\* A few calls of each operation
NarrowInputs ==
    [text |-> TextArgs({<<"hi">>}, {None}, {None, Some(FALSE)}),
     image |-> ImageArgs({<<"img">>}, {None}, {None}),
     file |-> FileArgs({<<"a">>, <<"/">>}, {None}, {None}),
     resp |-> NarrowResponses]

\* One call of each operation, every response
ResponseInputs ==
    [text |-> TextArgs({<<"hi">>}, {None}, {None}),
     image |-> ImageArgs({<<"img">>}, {None}, {None}),
     file |-> FileArgs({<<"a">>}, {None}, {None}),
     resp |-> Responses(WideStatuses, WideBodies)]

\* Every combination of optional arguments, every path
RequestInputs ==
    [text |-> TextArgs({<<>>, <<"hi">>}, OptStrings, OptBools),
     image |-> ImageArgs({<<>>, <<"img">>}, OptStrings, OptBools),
     file |-> FileArgs({<<"a">>}, OptStrings, OptBools)
              \cup FileArgs(SeqsUpTo(PathChars, MaxPathLen), {None}, {None, Some(TRUE)}),
     resp |-> {[status |-> 200, body |-> BodyModeration],
               [status |-> 500, body |-> BodyOops]}]

Calls == 1..NumCalls

\* ------------------------------------------------------------- the state
\* The frame of one call of an async fn: where it is suspended (pc), its
\* arguments, what the file read gave, the request it sent (nreq counts the
\* requests sent), the response it received and what it returned.
IdleCall ==
    [pc |-> "idle", op |-> "none", args |-> None, read |-> None, req |-> None,
     nreq |-> 0, resp |-> None, result |-> None]

\* SafeCommsClient::new(api_key, base_url)
InitWith(urls) ==
    \E k \in ApiKeys, u \in urls :
        /\ ctor = [api_key |-> k, base_url |-> u]
        /\ base_url = NewBaseUrl(u)
        /\ api_key = k
        /\ calls = [c \in Calls |-> IdleCall]

\* .send(): the request leaves and the call is suspended on it
Sent(c, op, a, req) ==
    calls' = [calls EXCEPT ![c] = [@ EXCEPT !.pc = "sending", !.op = op, !.args = a,
                                            !.req = Some(req), !.nreq = @ + 1]]

\* The call returns
Returned(c, result) ==
    calls' = [calls EXCEPT ![c] = [@ EXCEPT !.pc = "done", !.result = Some(result)]]

\* Mutant: the call appends the endpoint to the client's base_url in place
ModerateTextInPlace(c, D) ==
    /\ calls[c].pc = "idle"
    /\ base_url' = RequestUrl(base_url, "moderate_text")
    /\ \E a \in D.text :
          Sent(c, "moderate_text", a,
               [BuildTextRequest(base_url, api_key, a) EXCEPT !.url = base_url'])
    /\ UNCHANGED <<api_key, ctor>>

\* moderate_text up to .send().await
ModerateText(c, D) ==
    /\ calls[c].pc = "idle"
    /\ \E a \in D.text : Sent(c, "moderate_text", a, BuildTextRequest(base_url, api_key, a))
    /\ UNCHANGED <<base_url, api_key, ctor>>

\* moderate_image up to .send().await
ModerateImage(c, D) ==
    /\ calls[c].pc = "idle"
    /\ \E a \in D.image :
          Sent(c, "moderate_image", a, BuildImageRequest(base_url, api_key, a))
    /\ UNCHANGED <<base_url, api_key, ctor>>

\* get_usage up to .send().await
GetUsage(c) ==
    /\ calls[c].pc = "idle"
    /\ Sent(c, "get_usage", None, BuildUsageRequest(base_url, api_key))
    /\ UNCHANGED <<base_url, api_key, ctor>>

\* moderate_image_file up to tokio::fs::read(file_path).await
ModerateImageFile(c, D) ==
    /\ calls[c].pc = "idle"
    /\ \E a \in D.file :
          calls' = [calls EXCEPT ![c] = [@ EXCEPT !.pc = "reading_file",
                                                  !.op = "moderate_image_file",
                                                  !.args = a]]
    /\ UNCHANGED <<base_url, api_key, ctor>>

\* Mutant: the upload is sent although the read failed, and the error returned
FileReadSendsAnyway(c) ==
    /\ calls[c].pc = "reading_file"
    /\ \E r \in ReadOutcomes(calls[c].args.file_path) :
          IF r.t = "Err"
          THEN calls' = [calls EXCEPT ![c] =
                            [@ EXCEPT !.pc = "done", !.read = Some(r),
                                      !.req = Some(BuildUploadRequest(base_url, api_key,
                                                                      calls[c].args, "")),
                                      !.nreq = @ + 1,
                                      !.result = Some(ReadFailed(r.e))]]
          ELSE calls' = [calls EXCEPT ![c] =
                            [@ EXCEPT !.pc = "sending", !.read = Some(r),
                                      !.req = Some(BuildUploadRequest(base_url, api_key,
                                                                      calls[c].args, r.v)),
                                      !.nreq = @ + 1]]
    /\ UNCHANGED <<base_url, api_key, ctor>>

\* moderate_image_file from the end of the read to .send().await: a failed read
\* returns through `?`, a successful one builds the form and sends it
FileRead(c) ==
    /\ calls[c].pc = "reading_file"
    /\ \E r \in ReadOutcomes(calls[c].args.file_path) :
          IF r.t = "Err"
          THEN calls' = [calls EXCEPT ![c] = [@ EXCEPT !.pc = "done", !.read = Some(r),
                                                      !.result = Some(ReadFailed(r.e))]]
          ELSE calls' = [calls EXCEPT ![c] =
                            [@ EXCEPT !.pc = "sending", !.read = Some(r),
                                      !.req = Some(BuildUploadRequest(base_url, api_key,
                                                                      calls[c].args, r.v)),
                                      !.nreq = @ + 1]]
    /\ UNCHANGED <<base_url, api_key, ctor>>

\* Mutant: a failed send is retried once
SendCompletesRetry(c, D) ==
    /\ calls[c].pc = "sending"
    /\ \/ IF calls[c].nreq < 2
          THEN calls' = [calls EXCEPT ![c] = [@ EXCEPT !.nreq = @ + 1]]
          ELSE Returned(c, RequestError("send"))
       \/ \E r \in D.resp :
             calls' = [calls EXCEPT ![c] = [@ EXCEPT !.pc = "reading_body",
                                                     !.resp = Some(r)]]
    /\ UNCHANGED <<base_url, api_key, ctor>>

\* .send().await? of every operation: the transport fails, or a response
\* arrives and the call goes on to read its body
SendCompletes(c, D) ==
    /\ calls[c].pc = "sending"
    /\ \/ Returned(c, RequestError("send"))
       \/ \E r \in D.resp :
             calls' = [calls EXCEPT ![c] = [@ EXCEPT !.pc = "reading_body",
                                                     !.resp = Some(r)]]
    /\ UNCHANGED <<base_url, api_key, ctor>>

\* response.text().await? or response.json::<T>().await? of every operation:
\* reading the body fails, or the body is read and the call returns
BodyCompletes(c) ==
    /\ calls[c].pc = "reading_body"
    /\ \/ Returned(c, RequestError("body"))
       \/ Returned(c, Outcome(calls[c].op, calls[c].resp.v.status, calls[c].resp.v.body))
    /\ UNCHANGED <<base_url, api_key, ctor>>

\* One step of one call
Step(c, D) ==
    \/ ModerateText(c, D)
    \/ ModerateImage(c, D)
    \/ GetUsage(c)
    \/ ModerateImageFile(c, D)
    \/ FileRead(c)
    \/ SendCompletes(c, D)
    \/ BodyCompletes(c)

\* Concurrent calls on one client
Init == InitWith(SharedClientUrls)
Next == \E c \in Calls : Step(c, NarrowInputs)
Spec == Init /\ [][Next]_vars

\* One call, every response
InitResp == InitWith(NarrowUrls)
NextResp == Step(1, ResponseInputs)
SpecResp == InitResp /\ [][NextResp]_vars

\* One call, every base URL, argument combination and path
InitReq == InitWith(WideUrls)
NextReq == Step(1, RequestInputs)
SpecReq == InitReq /\ [][NextReq]_vars

\* ============================================================ the claims
\* The call has returned after a response whose body it could read
Answered(c) ==
    /\ calls[c].pc = "done"
    /\ IsSome(calls[c].resp)
    /\ calls[c].result.v # RequestError("body")

\* The status is in the 2xx class
Is2xx(status) == status \in 200..299

StatusOf(c) == calls[c].resp.v.status
BodyOf(c) == calls[c].resp.v.body
ResultOf(c) == calls[c].result.v

\* A non-2xx response whose body does not parse as ProblemDetails
Unparseable(c) ==
    /\ Answered(c)
    /\ ~Is2xx(StatusOf(c))
    /\ FromStr(BodyOf(c), ProblemDetailsSchema).t = "Err"

\* C1 as stated: a non-2xx response whose body does not parse as ProblemDetails
\* gives the API error message "{status code} - {raw body}", so status 500 with
\* body "oops" gives "500 - oops".
C1_Original ==
    \A c \in Calls :
        Unparseable(c) =>
            ResultOf(c) = ApiError(<<ToString(StatusOf(c)), " - ">> \o BodyOf(c).raw)

\* C1 amended: for each operation, a non-2xx response whose body does not parse
\* as ProblemDetails gives the API error message
\* "{code} {canonical reason} - {raw body}" ("<unknown status code>" standing
\* for the reason of a code that has none), so status 500 with body "oops"
\* gives "500 Internal Server Error - oops".
C1_Amended ==
    \A c \in Calls :
        /\ Unparseable(c) =>
              /\ ResultOf(c).t = "Err"
              /\ ResultOf(c).kind = "ApiError"
              /\ ResultOf(c).msg =
                    <<ToString(StatusOf(c)), " ",
                      UnwrapOr(CanonicalReason(StatusOf(c)), "<unknown status code>"),
                      " - ">> \o BodyOf(c).raw
        /\ Answered(c) /\ StatusOf(c) = 500 /\ BodyOf(c) = BodyOops =>
              ResultOf(c) = ApiError(<<"500", " ", "Internal Server Error", " - ", "oops">>)

\* get_usage has returned the error of status 500 with body "oops"
C1_Witness ==
    \E c \in Calls :
        /\ Unparseable(c)
        /\ calls[c].op = "get_usage"
        /\ StatusOf(c) = 500
        /\ BodyOf(c) = BodyOops
        /\ ResultOf(c).kind = "ApiError"

\* C2 as stated: a 2xx response whose body does not fit the success schema
\* fails with the SerializationError kind, not RequestError nor ApiError.
C2_Claim ==
    \A c \in Calls :
        Answered(c) /\ Is2xx(StatusOf(c))
            /\ FromStr(BodyOf(c), SuccessSchema(calls[c].op)).t = "Err" =>
                /\ ResultOf(c).t = "Err"
                /\ ResultOf(c).kind = "SerializationError"

\* C3: for a non-2xx response whose body parses as ProblemDetails, the API
\* error message is detail if present, else title if present, else the status
\* line alone.
C3_MessagePriority ==
    \A c \in Calls :
        LET p == FromStr(BodyOf(c), ProblemDetailsSchema)
            msg == ResultOf(c).msg
        IN  Answered(c) /\ ~Is2xx(StatusOf(c)) /\ p.t = "Ok" =>
              /\ ResultOf(c).t = "Err"
              /\ ResultOf(c).kind = "ApiError"
              /\ IsSome(p.v.detail) => msg = p.v.detail.v
              /\ ~IsSome(p.v.detail) /\ IsSome(p.v.title) => msg = p.v.title.v
              /\ ~IsSome(p.v.detail) /\ ~IsSome(p.v.title) =>
                    msg = <<ToString(StatusOf(c)), " ",
                            UnwrapOr(CanonicalReason(StatusOf(c)), "<unknown status code>")>>
              /\ BodyOf(c) \in {BodyDetail, BodyDetailTitle} => msg = <<"D">>
              /\ BodyOf(c) = BodyTitle => msg = <<"T">>
              /\ BodyOf(c) = BodyEmptyObject /\ StatusOf(c) = 404 =>
                    msg = <<"404", " ", "Not Found">>

\* A call has returned the error of a body with both detail and title
C3_Witness ==
    \E c \in Calls :
        /\ Answered(c)
        /\ StatusOf(c) = 400
        /\ BodyOf(c) = BodyDetailTitle
        /\ ResultOf(c) = ApiError(<<"D">>)

\* C10: a non-2xx response whose body was read gives ApiError whatever the
\* status and the body, and a typed success value is returned only for a 2xx.
C10_StatusDecides ==
    \A c \in Calls :
        /\ Answered(c) /\ ~Is2xx(StatusOf(c)) =>
              ResultOf(c).t = "Err" /\ ResultOf(c).kind = "ApiError"
        /\ calls[c].pc = "done" /\ ResultOf(c).t = "Ok" =>
              IsSome(calls[c].resp) /\ StatusOf(c) >= 200 /\ StatusOf(c) <= 299

\* A 300 response carrying a valid ModerationResponse has been turned into ApiError
C10_Witness ==
    \E c \in Calls :
        /\ Answered(c)
        /\ StatusOf(c) = 300
        /\ BodyOf(c) = BodyModeration
        /\ calls[c].op = "moderate_text"
        /\ ResultOf(c).kind = "ApiError"

\* The call has sent its request
HasSent(c) == IsSome(calls[c].req)

\* The keys of a JSON body, or the names of the text parts of a multipart one
BodyKeys(body) ==
    IF body.kind = "json" THEN {body.fields[i].k : i \in DOMAIN body.fields}
    ELSE IF body.kind = "multipart"
         THEN {body.parts[i].name : i \in DOMAIN body.parts}
    ELSE {}

\* The body carries key exactly once, with value val
Carries(body, key, val) ==
    IF body.kind = "json"
    THEN /\ Cardinality({i \in DOMAIN body.fields : body.fields[i].k = key}) = 1
         /\ \E i \in DOMAIN body.fields : body.fields[i] = [k |-> key, v |-> val]
    ELSE /\ Cardinality({i \in DOMAIN body.parts : body.parts[i].name = key}) = 1
         /\ \E i \in DOMAIN body.parts : body.parts[i] = [name |-> key, text |-> val]

\* An optional string is in the body iff it was supplied, with its own value
OptStrAsGiven(body, key, opt) ==
    /\ key \in BodyKeys(body) <=> opt # None
    /\ opt # None => Carries(body, key, IF body.kind = "json" THEN JStr(opt.v) ELSE opt.v)

\* An optional boolean is in the body iff it was supplied, with its own value
OptBoolAsGiven(body, key, opt) ==
    /\ key \in BodyKeys(body) <=> opt # None
    /\ opt # None =>
          Carries(body, key,
                  IF body.kind = "json" THEN JBool(opt.v)
                  ELSE IF opt.v THEN <<"true">> ELSE <<"false">>)

\* C9: in the body of moderate_text, moderate_image and moderate_image_file an
\* optional field appears iff the caller supplied it (false and the empty
\* string included), never as null, and the required field always appears.
C9_OptionalsAsGiven ==
    \A c \in Calls :
        LET a == calls[c].args
            b == calls[c].req.v.body
        IN  HasSent(c) =>
              /\ calls[c].op = "moderate_text" =>
                    /\ b.kind = "json"
                    /\ Carries(b, "content", JStr(a.content))
                    /\ OptStrAsGiven(b, "language", a.language)
                    /\ OptBoolAsGiven(b, "replace", a.replace)
                    /\ OptBoolAsGiven(b, "pii", a.pii)
                    /\ OptStrAsGiven(b, "replaceSeverity", a.replace_severity)
                    /\ OptStrAsGiven(b, "moderationProfileId", a.moderation_profile_id)
                    /\ \A i \in DOMAIN b.fields : b.fields[i].v # JNull
              /\ calls[c].op = "moderate_image" =>
                    /\ b.kind = "json"
                    /\ Carries(b, "image", JStr(a.image))
                    /\ OptStrAsGiven(b, "language", a.language)
                    /\ OptStrAsGiven(b, "moderationProfileId", a.moderation_profile_id)
                    /\ OptBoolAsGiven(b, "enableOcr", a.enable_ocr)
                    /\ OptBoolAsGiven(b, "enhancedOcr", a.enhanced_ocr)
                    /\ OptBoolAsGiven(b, "extractMetadata", a.extract_metadata)
                    /\ \A i \in DOMAIN b.fields : b.fields[i].v # JNull
              /\ calls[c].op = "moderate_image_file" =>
                    /\ b.kind = "multipart"
                    /\ b.parts[1].name = "image"
                    /\ Cardinality({i \in DOMAIN b.parts : b.parts[i].name = "image"}) = 1
                    /\ OptStrAsGiven(b, "language", a.language)
                    /\ OptStrAsGiven(b, "moderationProfileId", a.moderation_profile_id)
                    /\ OptBoolAsGiven(b, "enableOcr", a.enable_ocr)
                    /\ OptBoolAsGiven(b, "enhancedOcr", a.enhanced_ocr)
                    /\ OptBoolAsGiven(b, "extractMetadata", a.extract_metadata)

\* moderate_text has sent a body with an empty language and replace = false
\* but neither pii nor replaceSeverity
C9_Witness ==
    \E c \in Calls :
        /\ HasSent(c)
        /\ calls[c].op = "moderate_text"
        /\ calls[c].args.language = Some(<<>>)
        /\ calls[c].args.replace = Some(FALSE)
        /\ calls[c].args.pii = None
        /\ calls[c].args.replace_severity = None
        /\ BodyKeys(calls[c].req.v.body) \cap {"language", "replace", "pii", "replaceSeverity"}
              = {"language", "replace"}

\* s without its trailing '/' characters is t
StripsTo(s, t) ==
    /\ Len(t) <= Len(s)
    /\ t = SubSeq(s, 1, Len(t))
    /\ \A i \in (Len(t) + 1)..Len(s) : s[i] = "/"
    /\ t = <<>> \/ t[Len(t)] # "/"

\* The path each operation appends to the base URL
PathOf(op) ==
    CASE op = "moderate_text" -> <<"/", "moderation", "/", "text">>
      [] op = "moderate_image" -> <<"/", "moderation", "/", "image">>
      [] op = "moderate_image_file" -> <<"/", "moderation", "/", "image", "/", "upload">>
      [] op = "get_usage" -> <<"/", "usage">>

\* C8: every trailing '/' of the constructor's base URL is stripped, so each
\* request URL is the stripped base followed by the operation's path, with one
\* slash at the join; "https://x.test///" gives "https://x.test/moderation/text";
\* without a base URL the default https://api.safecomms.dev is used.
C8_OneSlashAtJoin ==
    \A c \in Calls :
        LET url == calls[c].req.v.url
            n == Len(url) - Len(PathOf(calls[c].op))
            given == IF ctor.base_url = None
                     THEN <<"https:", "/", "/", "api.safecomms.dev">>
                     ELSE ctor.base_url.v
        IN  HasSent(c) =>
              /\ n >= 0
              /\ SubSeq(url, n + 1, Len(url)) = PathOf(calls[c].op)
              /\ StripsTo(given, SubSeq(url, 1, n))
              /\ url[n + 1] = "/" /\ url[n + 2] # "/"
              /\ n > 0 => url[n] # "/"
              /\ ctor.base_url = Some(<<"https:", "/", "/", "x.test", "/", "/", "/">>)
                    /\ calls[c].op = "moderate_text" =>
                    url = <<"https:", "/", "/", "x.test", "/", "moderation", "/", "text">>

\* moderate_text has sent its request from a client built on "https://x.test///"
C8_Witness ==
    \E c \in Calls :
        /\ HasSent(c)
        /\ calls[c].op = "moderate_text"
        /\ ctor.base_url = Some(<<"https:", "/", "/", "x.test", "/", "/", "/">>)
        /\ calls[c].req.v.url = <<"https:", "/", "/", "x.test", "/", "moderation", "/", "text">>

\* The call is a moderate_image_file whose file read has ended
ReadEnded(c) ==
    calls[c].op = "moderate_image_file" /\ calls[c].pc \notin {"idle", "reading_file"}

\* The path has no file-name segment: it is empty, the root, or ends in ".."
\* (or in "." with nothing before it)
NoFileNameSegment(p) == PathFileName(p) = None

C5_ReadBeforeSend ==
    \A c \in Calls :
        /\ calls[c].pc = "reading_file" => ~HasSent(c) /\ calls[c].nreq = 0
        /\ calls[c].op = "moderate_image_file" /\ HasSent(c) =>
              IsSome(calls[c].read) /\ calls[c].read.v.t = "Ok"
        /\ ReadEnded(c) /\ calls[c].read.v.t = "Err" =>
              /\ calls[c].pc = "done"
              /\ ~HasSent(c) /\ calls[c].nreq = 0 /\ calls[c].resp = None
              /\ ResultOf(c) =
                    ApiError(<<"Failed to read file: ">> \o calls[c].read.v.e)

\* moderate_image_file on a missing file has returned the read failure
C5_Witness ==
    \E c \in Calls :
        /\ ReadEnded(c)
        /\ calls[c].args.file_path = <<"a">>
        /\ calls[c].read.v = [t |-> "Err", e |-> ENOENT]
        /\ calls[c].pc = "done"
        /\ calls[c].nreq = 0
        /\ ResultOf(c) = ApiError(<<"Failed to read file: ">> \o ENOENT)

\* What a call holds at each point of its single round trip
OneRoundTrip(c) ==
    LET f == calls[c]
    IN  /\ f.nreq <= 1
        /\ f.nreq = 1 <=> IsSome(f.req)
        /\ IsSome(f.resp) => f.nreq = 1
        /\ f.pc = "done" <=> IsSome(f.result)
        /\ IsSome(f.result) =>
              \/ f.result.v.t = "Ok" /\ DOMAIN f.result.v = {"t", "v"}
              \/ f.result.v.t = "Err" /\ f.result.v.kind \in ErrorKinds
        \* a typed response only after a sent request and a received response
        /\ IsSome(f.result) /\ f.result.v.t = "Ok" => f.nreq = 1 /\ IsSome(f.resp)
        \* a call that ended without a response ended on the failure of its
        \* read or of its send
        /\ f.pc = "done" /\ ~IsSome(f.resp) =>
              /\ f.result.v.t = "Err"
              /\ f.nreq = 0 => f.result.v.kind = "ApiError"
              /\ f.nreq = 1 => f.result.v = RequestError("send")

\* C6: each call of any operation sends at most one request (no retry after a
\* failure) and ends with exactly one outcome, a typed response or one error
\* of the three kinds, which then never changes.
C6_SingleShot ==
    /\ [](\A c \in Calls : OneRoundTrip(c))
    /\ [][\A c \in Calls :
            /\ calls'[c].nreq >= calls[c].nreq
            /\ calls[c].pc = "done" => calls'[c] = calls[c]
            /\ calls[c].pc = "sending" /\ calls'[c].pc # "sending" =>
                  \/ calls'[c].pc = "done" /\ calls'[c].result.v = RequestError("send")
                  \/ calls'[c].pc = "reading_body"]_vars

\* A call whose send failed has returned RequestError after its one request
C6_Witness ==
    \E c \in Calls :
        /\ calls[c].pc = "done"
        /\ calls[c].nreq = 1
        /\ calls[c].resp = None
        /\ ResultOf(c) = RequestError("send")

\* The request the call's own arguments and the client's configuration give
OwnRequest(c) ==
    LET base == TrimEndSlashes(IF ctor.base_url = None THEN DEFAULT_BASE_URL
                               ELSE ctor.base_url.v)
        key == ctor.api_key
        a == calls[c].args
    IN  CASE calls[c].op = "moderate_text" -> BuildTextRequest(base, key, a)
          [] calls[c].op = "moderate_image" -> BuildImageRequest(base, key, a)
          [] calls[c].op = "moderate_image_file" ->
                BuildUploadRequest(base, key, a, calls[c].read.v.v)
          [] calls[c].op = "get_usage" -> BuildUsageRequest(base, key)

\* C7: under every interleaving of concurrent calls on one client, each call's
\* request is built from its own arguments and the client's configuration,
\* each call's result comes from its own response, and base_url and api_key
\* stay what the constructor made them.
C7_CallsIndependent ==
    /\ api_key = ctor.api_key
    /\ base_url = TrimEndSlashes(IF ctor.base_url = None THEN DEFAULT_BASE_URL
                                 ELSE ctor.base_url.v)
    /\ \A c \in Calls :
          /\ HasSent(c) => calls[c].req.v = OwnRequest(c)
          /\ Answered(c) => ResultOf(c) = Outcome(calls[c].op, StatusOf(c), BodyOf(c))

\* Two calls of different operations are in flight at once, one of them
\* already holding its response
C7_Witness ==
    \E c, d \in Calls :
        /\ c # d
        /\ calls[c].op = "moderate_text" /\ calls[c].pc = "reading_body"
        /\ StatusOf(c) = 500
        /\ calls[d].op = "moderate_image_file" /\ calls[d].pc = "sending"
====
